---- MODULE Spec2Model ----
(***************************************************************************)
(* The timing core of src/src/App.tsx: the shared running flag, the        *)
(* countdown, the stopwatch with its laps and the pomodoro (focus-cycle)   *)
(* phase machine, together with the three setInterval timers that the      *)
(* effects arm and clear.                                                  *)
(*                                                                         *)
(* One action is one event of the component: a click handler or a timer    *)
(* callback, followed by the re-render and by the effects whose            *)
(* dependency lists changed (cleanup, then the effect body).  The wall     *)
(* clock, the temperature, the theme, the timezone and the settings panel  *)
(* never read or write the state modelled here and are left out.           *)
(***************************************************************************)
EXTENDS Integers, Sequences, FiniteSets, TLC

VARIABLES
    mode,               \* useState<Mode>, line 58
    isRunning,          \* line 64, shared by the three engines
    soundEnabled,       \* line 68
    countdown,          \* line 63, [hours, minutes, seconds]
    stopwatch,          \* line 65, elapsed milliseconds
    laps,               \* line 66
    pomodoroPhase,      \* line 72
    pomodoroCount,      \* line 73
    pomodoroTime,       \* line 74, remaining seconds of the phase
    pomodoroInterval,   \* the timer of the Pomodoro Effect and what its callback captured
    countdownInterval,  \* the timer of the Countdown Effect
    stopwatchInterval,  \* the timer of the Stopwatch Effect
    last,               \* history: the event that led to this state
    cues,               \* the playTick()/playAlarm() calls made by that event, in order
    run,                \* history: the countdown run since the last user action
    worksDone,          \* history: work phases completed since construction or reset
    swTicks,            \* history: stopwatch callbacks since construction or reset
    ticks               \* history: timer callbacks delivered so far

vars == <<mode, isRunning, soundEnabled, countdown, stopwatch, laps,
          pomodoroPhase, pomodoroCount, pomodoroTime,
          pomodoroInterval, countdownInterval, stopwatchInterval,
          last, cues, run, worksDone, swTicks, ticks>>

\* the state of the component and of its timers, without the history
component == <<mode, isRunning, soundEnabled, countdown, stopwatch, laps,
               pomodoroPhase, pomodoroCount, pomodoroTime,
               pomodoroInterval, countdownInterval, stopwatchInterval>>

----------------------------------------------------------------------------
(* Bounds of the exploration *)

\* timer callbacks delivered in one behaviour
MaxTicks == 3
\* laps recorded between two resets
MaxLaps == 2
\* a resumed timer stands at most this many seconds before its end
NearEnd == 2

----------------------------------------------------------------------------
(* Program constants *)

Modes == {"clock", "countdown", "stopwatch", "pomodoro"}
Phases == {"work", "shortBreak", "longBreak"}

POMODORO_work == 25 * 60
POMODORO_shortBreak == 5 * 60
POMODORO_longBreak == 15 * 60
POMODORO_longBreakInterval == 4

\* the three preset buttons of the countdown view, in minutes
Presets == {5, 15, 25}

\* the stopwatch callback adds this many milliseconds
StopwatchQuantum == 10

----------------------------------------------------------------------------
(* Pure helpers *)

\* prev.hours * 3600 + prev.minutes * 60 + prev.seconds
Total(c) == c.hours * 3600 + c.minutes * 60 + c.seconds

ZeroCountdown == [hours |-> 0, minutes |-> 0, seconds |-> 0]

\* a normalisation that forgets to reduce the seconds modulo 60
NormalizeNoModulo(totalSeconds) ==
    [hours   |-> totalSeconds \div 3600,
     minutes |-> (totalSeconds % 3600) \div 60,
     seconds |-> totalSeconds]

\* the (hours, minutes, seconds) triple the countdown callback derives
Normalize(totalSeconds) ==
    [hours   |-> totalSeconds \div 3600,
     minutes |-> (totalSeconds % 3600) \div 60,
     seconds |-> totalSeconds % 60]

\* handlePresetClick's triple
PresetCountdown(minutes) ==
    [hours |-> minutes \div 60, minutes |-> minutes % 60, seconds |-> 0]

\* the total of calculateProgress, also what the handlers pass to setPomodoroTime
PhaseDuration(phase) ==
    IF phase = "work" THEN POMODORO_work
    ELSE IF phase = "shortBreak" THEN POMODORO_shortBreak
    ELSE POMODORO_longBreak

\* handlePomodoroPhaseComplete, the phase it sets; phase and count are the
\* values of the render whose closure the timer callback holds
NextPhase(phase, count) ==
    IF phase = "work"
    THEN IF count + 1 >= POMODORO_longBreakInterval THEN "longBreak" ELSE "shortBreak"
    ELSE "work"

\* a counter that is never set back to 0 at the long-break threshold
NextCountNoWrap(prev, phase, count) ==
    IF phase = "work" THEN prev + 1 ELSE prev

\* handlePomodoroPhaseComplete, the queued count updates applied to prev:
\* prev => prev + 1, then 0 past the threshold
NextCount(prev, phase, count) ==
    IF phase = "work"
    THEN IF count + 1 >= POMODORO_longBreakInterval THEN 0 ELSE prev + 1
    ELSE prev

\* a / b on two non-negative integers as JavaScript numbers: 0 / 0 is NaN,
\* a / 0 is Infinity for a > 0, otherwise the exact quotient num / den
JsDivide(a, b) ==
    IF b = 0
    THEN [kind |-> IF a = 0 THEN "NaN" ELSE "Infinity", num |-> 0, den |-> 0]
    ELSE [kind |-> "finite", num |-> a, den |-> b]

\* x * 100 on such a number: NaN and Infinity stay what they are
JsTimes100(x) ==
    IF x.kind = "finite" THEN [x EXCEPT !.num = @ * 100] ELSE x

\* calculateProgress, lines 215-227: the divisor of the mode on display
\* (`total` in pomodoro mode, `initial` in countdown mode)
ProgressDivisor(m, phase, c) ==
    IF m = "pomodoro" THEN PhaseDuration(phase) ELSE Total(c)

\* calculateProgress, lines 215-227; in countdown mode `total` and
\* `initial` are the same expression of the current fields
CalculateProgress(m, phase, time, c) ==
    IF m = "pomodoro"
    THEN LET total == PhaseDuration(phase)
         IN  JsTimes100(JsDivide(total - time, total))
    ELSE IF m = "countdown"
    THEN LET total   == Total(c)
             initial == Total(c)
         IN  JsTimes100(JsDivide(initial - total, initial))
    ELSE [kind |-> "finite", num |-> 0, den |-> 1]

\* the render passes calculateProgress() to ProgressRing, lines 374 and 421
ProgressRingShown == isRunning /\ mode \in {"countdown", "pomodoro"}

----------------------------------------------------------------------------
(* Timers: what an effect leaves behind after a render *)

NoInterval == [armed |-> FALSE]

\* the interval of the Pomodoro Effect; its callback closes over the render's
\* handlePomodoroPhaseComplete (so over pomodoroPhase and pomodoroCount) and
\* over soundEnabled
ArmedPomodoro(phase, count, sound) ==
    [armed |-> TRUE, pomodoroPhase |-> phase, pomodoroCount |-> count,
     soundEnabled |-> sound]

\* the intervals of the Countdown and Stopwatch Effects close over soundEnabled
ArmedPlain(sound) == [armed |-> TRUE, soundEnabled |-> sound]

\* a Pomodoro Effect whose dependency list lacks isRunning
PomodoroEffectNoRunningDep ==
    pomodoroInterval' =
        IF <<mode', pomodoroPhase', soundEnabled'>>
               = <<mode, pomodoroPhase, soundEnabled>>
        THEN pomodoroInterval
        ELSE IF isRunning' /\ mode' = "pomodoro"
             THEN ArmedPomodoro(pomodoroPhase', pomodoroCount', soundEnabled')
             ELSE NoInterval

\* useEffect(..., [isRunning, mode, pomodoroPhase, soundEnabled]): when a
\* dependency changed, clearInterval, then arm again if running in this mode
PomodoroEffect ==
    pomodoroInterval' =
        IF <<isRunning', mode', pomodoroPhase', soundEnabled'>>
               = <<isRunning, mode, pomodoroPhase, soundEnabled>>
        THEN pomodoroInterval
        ELSE IF isRunning' /\ mode' = "pomodoro"
             THEN ArmedPomodoro(pomodoroPhase', pomodoroCount', soundEnabled')
             ELSE NoInterval

\* a Countdown Effect whose dependency list lacks mode
CountdownEffectNoModeDep ==
    countdownInterval' =
        IF <<isRunning', soundEnabled'>> = <<isRunning, soundEnabled>>
        THEN countdownInterval
        ELSE IF isRunning' /\ mode' = "countdown"
             THEN ArmedPlain(soundEnabled')
             ELSE NoInterval

\* a Countdown Effect whose dependency list lacks isRunning
CountdownEffectNoRunningDep ==
    countdownInterval' =
        IF <<mode', soundEnabled'>> = <<mode, soundEnabled>>
        THEN countdownInterval
        ELSE IF isRunning' /\ mode' = "countdown"
             THEN ArmedPlain(soundEnabled')
             ELSE NoInterval

\* useEffect(..., [isRunning, mode, soundEnabled]) of the countdown
CountdownEffect ==
    countdownInterval' =
        IF <<isRunning', mode', soundEnabled'>> = <<isRunning, mode, soundEnabled>>
        THEN countdownInterval
        ELSE IF isRunning' /\ mode' = "countdown"
             THEN ArmedPlain(soundEnabled')
             ELSE NoInterval

\* useEffect(..., [isRunning, mode, soundEnabled]) of the stopwatch
StopwatchEffect ==
    stopwatchInterval' =
        IF <<isRunning', mode', soundEnabled'>> = <<isRunning, mode, soundEnabled>>
        THEN stopwatchInterval
        ELSE IF isRunning' /\ mode' = "stopwatch"
             THEN ArmedPlain(soundEnabled')
             ELSE NoInterval

\* the effects that run after every commit
Effects == PomodoroEffect /\ CountdownEffect /\ StopwatchEffect

----------------------------------------------------------------------------
(* History *)

NoRun == [n |-> -1, k |-> 0, alarms |-> 0]

\* a user event starts a fresh countdown run when it leaves the countdown armed
UserEvent(name) ==
    /\ last' = name
    /\ swTicks' = IF name = "reset" /\ mode = "stopwatch" THEN 0 ELSE swTicks
    /\ cues' = <<>>
    /\ ticks' = ticks
    /\ run' = IF isRunning' /\ mode' = "countdown"
              THEN [n |-> Total(countdown'), k |-> 0, alarms |-> 0]
              ELSE NoRun

----------------------------------------------------------------------------
(* Initial state: the useState defaults of lines 58-74; no effect arms a   *)
(* timer on mount because isRunning is false.                              *)

Init ==
    /\ mode = "clock"
    /\ isRunning = FALSE
    /\ soundEnabled = TRUE
    /\ countdown = ZeroCountdown
    /\ stopwatch = 0
    /\ laps = <<>>
    /\ pomodoroPhase = "work"
    /\ pomodoroCount = 0
    /\ pomodoroTime = POMODORO_work
    /\ pomodoroInterval = NoInterval
    /\ countdownInterval = NoInterval
    /\ stopwatchInterval = NoInterval
    /\ last = "mount"
    /\ cues = <<>>
    /\ run = NoRun
    /\ worksDone = 0
    /\ swTicks = 0
    /\ ticks = 0

----------------------------------------------------------------------------
(* User events *)

\* a mode switch that also stops the timer
SetModeStops(m) ==
    /\ mode' = m
    /\ isRunning' = FALSE
    /\ UNCHANGED <<soundEnabled, countdown, stopwatch, laps,
                   pomodoroPhase, pomodoroCount, pomodoroTime, worksDone>>
    /\ UserEvent("setMode")
    /\ Effects

\* the four mode buttons, lines 262-285
SetMode(m) ==
    /\ mode' = m
    /\ UNCHANGED <<isRunning, soundEnabled, countdown, stopwatch, laps,
                   pomodoroPhase, pomodoroCount, pomodoroTime, worksDone>>
    /\ UserEvent("setMode")
    /\ Effects

\* the sound buttons, lines 293 and 346
ToggleSound ==
    /\ soundEnabled' = ~soundEnabled
    /\ UNCHANGED <<mode, isRunning, countdown, stopwatch, laps,
                   pomodoroPhase, pomodoroCount, pomodoroTime, worksDone>>
    /\ UserEvent("toggleSound")
    /\ Effects

\* what the Start/Pause button writes to isRunning
ToggledRunning == ~isRunning

\* the Start/Pause button, lines 430-437: rendered in every mode but the clock
ToggleRunning ==
    /\ mode # "clock"
    /\ isRunning' = ToggledRunning
    /\ UNCHANGED <<mode, soundEnabled, countdown, stopwatch, laps,
                   pomodoroPhase, pomodoroCount, pomodoroTime, worksDone>>
    /\ UserEvent("toggleRunning")
    /\ Effects

\* the preset buttons of the countdown view, lines 376-395
HandlePresetClick(minutes) ==
    /\ mode = "countdown"
    /\ countdown' = PresetCountdown(minutes)
    /\ UNCHANGED <<mode, isRunning, soundEnabled, stopwatch, laps,
                   pomodoroPhase, pomodoroCount, pomodoroTime, worksDone>>
    /\ UserEvent("preset")
    /\ Effects

\* a lap that replaces the list instead of extending it
LapsAfterLapOnly == <<stopwatch>>

\* setLaps(prev => [...prev, stopwatch])
LapsAfterLap == Append(laps, stopwatch)

\* the Lap button, lines 438-446: stopwatch view only, disabled unless running
HandleLap ==
    /\ mode = "stopwatch"
    /\ isRunning
    /\ Len(laps) < MaxLaps
    /\ laps' = LapsAfterLap
    /\ UNCHANGED <<mode, isRunning, soundEnabled, countdown, stopwatch,
                   pomodoroPhase, pomodoroCount, pomodoroTime, worksDone>>
    /\ UserEvent("lap")
    /\ Effects

\* a stopwatch reset that keeps the recorded laps
ResetStopwatchKeepsLaps ==
    /\ stopwatch' = 0
    /\ laps' = laps
    /\ UNCHANGED <<countdown, pomodoroPhase, pomodoroCount, pomodoroTime, worksDone>>

\* handleReset in stopwatch mode
ResetStopwatch ==
    /\ stopwatch' = 0
    /\ laps' = <<>>
    /\ UNCHANGED <<countdown, pomodoroPhase, pomodoroCount, pomodoroTime, worksDone>>

\* a countdown reset that clears the stopwatch as well
ResetCountdownAll ==
    /\ countdown' = ZeroCountdown
    /\ stopwatch' = 0
    /\ laps' = <<>>
    /\ UNCHANGED <<pomodoroPhase, pomodoroCount, pomodoroTime, worksDone>>

\* handleReset in countdown mode
ResetCountdown ==
    /\ countdown' = ZeroCountdown
    /\ UNCHANGED <<stopwatch, laps, pomodoroPhase, pomodoroCount, pomodoroTime,
                   worksDone>>

\* a pomodoro reset that forgets setPomodoroCount(0)
ResetPomodoroKeepsCount ==
    /\ pomodoroPhase' = "work"
    /\ pomodoroTime' = POMODORO_work
    /\ worksDone' = 0
    /\ UNCHANGED <<pomodoroCount, countdown, stopwatch, laps>>

\* handleReset in pomodoro mode
ResetPomodoro ==
    /\ pomodoroPhase' = "work"
    /\ pomodoroTime' = POMODORO_work
    /\ pomodoroCount' = 0
    /\ worksDone' = 0
    /\ UNCHANGED <<countdown, stopwatch, laps>>

\* a reset that toggles the running flag as the Start/Pause button does
RunningAfterResetToggled == ~isRunning

\* handleReset's setIsRunning(false), line 242
RunningAfterReset == FALSE

\* the Reset button, lines 447-452, and handleReset, lines 241-253
HandleReset ==
    /\ mode # "clock"
    /\ isRunning' = RunningAfterReset
    /\ CASE mode = "stopwatch" -> ResetStopwatch
         [] mode = "countdown" -> ResetCountdown
         [] mode = "pomodoro"  -> ResetPomodoro
    /\ UNCHANGED <<mode, soundEnabled>>
    /\ UserEvent("reset")
    /\ Effects

----------------------------------------------------------------------------
(* Timer callbacks *)

\* the state updater of the countdown callback, lines 138-153
CountdownAfterTick(prev) ==
    LET totalSeconds == Total(prev) - 1
    IN  IF totalSeconds <= 0 THEN ZeroCountdown ELSE Normalize(totalSeconds)

\* a countdown that expires one tick late: the test written as < 0
CountdownExpiresLate(prev) == Total(prev) - 1 < 0

\* whether the countdown callback takes its expiry branch, line 140
CountdownExpires(prev) == Total(prev) - 1 <= 0

\* countdown sound calls that ignore the sound switch
CountdownCuesAnySound(prev, sound) ==
    LET totalSeconds == Total(prev) - 1
    IN  IF totalSeconds <= 0 THEN <<"alarm">>
        ELSE IF totalSeconds % 60 = 0 THEN <<"tick">>
        ELSE <<>>

\* the sound calls of the countdown callback, lines 141 and 145-147
CountdownCues(prev, sound) ==
    LET totalSeconds == Total(prev) - 1
    IN  IF totalSeconds <= 0 THEN <<"alarm">>
        ELSE IF totalSeconds % 60 = 0 /\ sound THEN <<"tick">>
        ELSE <<>>

AlarmsIn(seq) == Cardinality({i \in 1..Len(seq) : seq[i] = "alarm"})

\* the setInterval callback of the Countdown Effect, lines 137-154
CountdownStep ==
    /\ countdownInterval.armed
    /\ countdown' = CountdownAfterTick(countdown)
    /\ isRunning' = IF CountdownExpires(countdown) THEN FALSE ELSE isRunning
    /\ last' = "countdownTick"
    /\ cues' = CountdownCues(countdown, countdownInterval.soundEnabled)
    /\ run' = [run EXCEPT !.k = @ + 1, !.alarms = @ + AlarmsIn(cues')]
    /\ ticks' = ticks + 1
    /\ UNCHANGED <<mode, soundEnabled, stopwatch, laps,
                   pomodoroPhase, pomodoroCount, pomodoroTime, worksDone, swTicks>>
    /\ Effects

\* ... delivered within the budget of the exploration
CountdownTick == ticks < MaxTicks /\ CountdownStep

\* a stopwatch that counts callbacks instead of milliseconds
StopwatchAfterTickOne(prev) == prev + 1

\* the state updater of the stopwatch callback, line 168
StopwatchAfterTick(prev) == prev + StopwatchQuantum

\* the sound call of the stopwatch callback, lines 165-167
StopwatchCues(prev, sound) ==
    IF sound /\ prev % 1000 = 0 THEN <<"tick">> ELSE <<>>

\* the setInterval callback of the Stopwatch Effect, lines 163-170
StopwatchTick ==
    /\ stopwatchInterval.armed
    /\ ticks < MaxTicks
    /\ stopwatch' = StopwatchAfterTick(stopwatch)
    /\ last' = "stopwatchTick"
    /\ swTicks' = swTicks + 1
    /\ cues' = StopwatchCues(stopwatch, stopwatchInterval.soundEnabled)
    /\ ticks' = ticks + 1
    /\ UNCHANGED <<mode, isRunning, soundEnabled, countdown, laps,
                   pomodoroPhase, pomodoroCount, pomodoroTime, worksDone, run>>
    /\ Effects

\* whether the pomodoro callback takes its completion branch, line 118
PomodoroCompletes(prev) == prev <= 1

\* a completion that always loads the work duration
PomodoroTimeAfterCompleteWork(next) == {0, POMODORO_work}

\* pomodoroTime after a completion.  The updater of line 117 is not pure: it
\* calls handlePomodoroPhaseComplete, which calls setPomodoroTime(duration of
\* the next phase), and then returns 0, so two writes of pomodoroTime are in
\* the same batch.  Which one is applied last depends on when React runs the
\* updater: during the render (the usual case, whenever the component has
\* re-rendered since its last bail-out) the nested setPomodoroTime is queued
\* behind the updater and the duration stays; computed eagerly at dispatch
\* (the component's last render was a bail-out, such as a click on the
\* button of the mode already shown) the nested call is queued first and the
\* updater's 0 is applied last.
PomodoroTimeAfterComplete(next) == {0, PhaseDuration(next)}

\* the sound calls of the pomodoro callback, lines 119 and 123-125
PomodoroCues(prev, sound) ==
    IF prev <= 1 THEN <<"alarm">>
    ELSE IF prev % 60 = 0 /\ sound THEN <<"tick">>
    ELSE <<>>

\* the branch of lines 118-122 with handlePomodoroPhaseComplete, lines 175-191
PomodoroComplete ==
    LET cap  == pomodoroInterval
        next == NextPhase(cap.pomodoroPhase, cap.pomodoroCount)
    IN  /\ isRunning' = FALSE
        /\ pomodoroPhase' = next
        /\ pomodoroCount' = NextCount(pomodoroCount, cap.pomodoroPhase, cap.pomodoroCount)
        /\ pomodoroTime' \in PomodoroTimeAfterComplete(next)
        /\ worksDone' = IF pomodoroPhase = "work" THEN worksDone + 1 ELSE worksDone

\* the branch of lines 123-126
PomodoroDecrement ==
    /\ pomodoroTime' = pomodoroTime - 1
    /\ UNCHANGED <<isRunning, pomodoroPhase, pomodoroCount, worksDone>>

\* the setInterval callback of the Pomodoro Effect, lines 116-128
PomodoroStep ==
    /\ pomodoroInterval.armed
    /\ IF PomodoroCompletes(pomodoroTime) THEN PomodoroComplete ELSE PomodoroDecrement
    /\ last' = "pomodoroTick"
    /\ cues' = PomodoroCues(pomodoroTime, pomodoroInterval.soundEnabled)
    /\ ticks' = ticks + 1
    /\ UNCHANGED <<mode, soundEnabled, countdown, stopwatch, laps, run, swTicks>>
    /\ Effects

\* ... delivered within the budget of the exploration
PomodoroTick == ticks < MaxTicks /\ PomodoroStep

----------------------------------------------------------------------------
(* Specifications *)

Next ==
    \/ \E m \in Modes : SetMode(m)
    \/ ToggleSound
    \/ ToggleRunning
    \/ \E minutes \in Presets : HandlePresetClick(minutes)
    \/ HandleLap
    \/ HandleReset
    \/ CountdownTick
    \/ StopwatchTick
    \/ PomodoroTick

\* the component from its construction
Spec == Init /\ [][Next]_vars

\* Seconds at which a paused timer may stand when an exploration starts
\* part-way through a session: the last seconds before its end.
ResumeSeconds == 1..NearEnd

\* The component as the user left it earlier in the session: back on the
\* clock view, paused, the stopwatch reset.  Every state below is reached
\* from Init by presets, starts, ticks and pauses.
Resumed ==
    /\ mode = "clock"
    /\ isRunning = FALSE
    /\ soundEnabled = TRUE
    /\ stopwatch = 0
    /\ laps = <<>>
    /\ pomodoroInterval = NoInterval
    /\ countdownInterval = NoInterval
    /\ stopwatchInterval = NoInterval
    /\ last = "mount"
    /\ cues = <<>>
    /\ run = NoRun
    /\ swTicks = 0
    /\ ticks = 0

\* ... with the countdown paused in its last seconds or just above a minute
\* boundary, the pomodoro untouched
InitCountdown ==
    /\ Resumed
    /\ \E t \in ResumeSeconds \cup {61} : countdown = Normalize(t)
    /\ pomodoroPhase = "work"
    /\ pomodoroCount = 0
    /\ pomodoroTime = POMODORO_work
    /\ worksDone = 0

SpecCountdown == InitCountdown /\ [][Next]_vars

\* ... with the pomodoro paused in the last second of any phase of its
\* first cycle, the countdown untouched
InitPomodoro ==
    /\ Resumed
    /\ countdown = ZeroCountdown
    /\ pomodoroPhase \in Phases
    /\ pomodoroCount \in CASE pomodoroPhase = "work"       -> 0..(POMODORO_longBreakInterval - 1)
                          [] pomodoroPhase = "shortBreak" -> 1..(POMODORO_longBreakInterval - 1)
                          [] pomodoroPhase = "longBreak"  -> {0}
    /\ pomodoroTime = 1
    /\ worksDone = IF pomodoroPhase = "longBreak" THEN POMODORO_longBreakInterval
                   ELSE pomodoroCount

SpecPomodoro == InitPomodoro /\ [][Next]_vars

\* The component is torn down: React runs the cleanup of every effect,
\* lines 130, 156 and 172, and nothing is rendered any more.
Unmount ==
    /\ last # "unmount"
    /\ last' = "unmount"
    /\ pomodoroInterval' = NoInterval
    /\ countdownInterval' = NoInterval
    /\ stopwatchInterval' = NoInterval
    /\ cues' = <<>>
    /\ UNCHANGED <<mode, isRunning, soundEnabled, countdown, stopwatch, laps,
                   pomodoroPhase, pomodoroCount, pomodoroTime,
                   run, worksDone, swTicks, ticks>>

\* the click handlers: they need the rendered buttons
UserNext ==
    \/ \E m \in Modes : SetMode(m)
    \/ ToggleSound
    \/ ToggleRunning
    \/ \E minutes \in Presets : HandlePresetClick(minutes)
    \/ HandleLap
    \/ HandleReset

\* the component with its teardown: a timer callback needs only its timer
NextUnmount ==
    \/ last # "unmount" /\ UserNext
    \/ CountdownTick
    \/ StopwatchTick
    \/ PomodoroTick
    \/ Unmount

SpecUnmount == Init /\ [][NextUnmount]_vars

\* a session resumed in either the countdown or the pomodoro engine
InitResumed == InitCountdown \/ InitPomodoro

SpecResumed == InitResumed /\ [][Next]_vars

\* A session whose user sets everything up and then leaves the page alone:
\* clicks come before the first timer callback, and the countdown and
\* pomodoro callbacks then run for as long as their timer is armed.
NextLive ==
    \/ ticks = 0 /\ UserNext
    \/ CountdownStep
    \/ PomodoroStep
    \/ StopwatchTick

\* setInterval keeps delivering the callback of a timer that stays armed
SpecLive ==
    /\ Init
    /\ [][NextLive]_vars
    /\ WF_vars(CountdownStep)
    /\ WF_vars(PomodoroStep)

----------------------------------------------------------------------------
(* Claims *)

\* C1: starting a countdown whose total is 0 is a no-op: after the
\* Start/Pause button in countdown mode the component is running only if the
\* total is positive, and the countdown callback never plays the alarm in a
\* run that was armed at total 0.
C1_ZeroCountdownStartIsNoOp ==
    /\ (last = "toggleRunning" /\ mode = "countdown" /\ isRunning)
           => Total(countdown) > 0
    /\ (last = "countdownTick" /\ AlarmsIn(cues) > 0) => run.n > 0

\* C2: a countdown armed at n > 0 seconds and left alone shows n - k seconds,
\* still running and with no alarm played, after k < n ticks; after n ticks
\* it shows (0,0,0), is not running, has played exactly one alarm, and no
\* timer is left armed, so nothing more happens until the user acts.
C2_CountdownExpiry ==
    run.n > 0 =>
        /\ run.k <= run.n
        /\ run.k < run.n =>
               /\ Total(countdown) = run.n - run.k
               /\ isRunning /\ mode = "countdown"
               /\ run.alarms = 0
        /\ run.k = run.n =>
               /\ countdown = ZeroCountdown
               /\ ~isRunning
               /\ run.alarms = 1
               /\ ~countdownInterval.armed
               /\ ~pomodoroInterval.armed
               /\ ~stopwatchInterval.armed

\* a countdown armed at two seconds or more has run to its end
C2_Witness ==
    /\ run.n >= 2
    /\ run.k = run.n
    /\ last = "countdownTick"
    /\ cues = <<"alarm">>

\* C3: a pomodoro tick in a running work phase with one second left and a
\* completed-work count c, c + 1 < 4, yields the short break with 300 seconds
\* remaining, count c + 1, not running, and plays the alarm exactly once.
C3_WorkCompletion ==
    [][(/\ last' = "pomodoroTick"
        /\ mode = "pomodoro" /\ isRunning
        /\ pomodoroPhase = "work" /\ pomodoroTime = 1
        /\ pomodoroCount + 1 < 4)
       => (/\ pomodoroPhase' = "shortBreak"
           /\ pomodoroTime' = 300
           /\ pomodoroCount' = pomodoroCount + 1
           /\ ~isRunning'
           /\ cues' = <<"alarm">>)]_vars

\* C4: counted from construction or reset, the first three work completions
\* land on the short break, the fourth lands on the long break with 900
\* seconds remaining and the count back at 0, and the long break is entered
\* on no other transition.
C4_LongBreakThreshold ==
    [][/\ (worksDone' = worksDone + 1 /\ worksDone' < 4)
              => pomodoroPhase' = "shortBreak"
       /\ (worksDone' = worksDone + 1 /\ worksDone' = 4)
              => (/\ pomodoroPhase' = "longBreak"
                  /\ pomodoroTime' = 900
                  /\ pomodoroCount' = 0)
       /\ (pomodoroPhase' = "longBreak" /\ pomodoroPhase # "longBreak")
              => (worksDone' = worksDone + 1 /\ worksDone' % 4 = 0)]_vars

\* C5: a pomodoro tick in a running break with one second left yields the
\* work phase with 1500 seconds remaining, not running, the count unchanged;
\* and after any completion the remaining time is the full duration of the
\* new phase and the component is not running.
C5_BreakCompletion ==
    [][/\ (/\ last' = "pomodoroTick"
           /\ mode = "pomodoro" /\ isRunning
           /\ pomodoroPhase \in {"shortBreak", "longBreak"} /\ pomodoroTime = 1)
          => (/\ pomodoroPhase' = "work"
              /\ pomodoroTime' = 1500
              /\ ~isRunning'
              /\ pomodoroCount' = pomodoroCount)
       /\ (last' = "pomodoroTick" /\ pomodoroPhase' # pomodoroPhase)
          => (pomodoroTime' = PhaseDuration(pomodoroPhase') /\ ~isRunning')]_vars

\* C6: the remaining time of the pomodoro is an integer between 0 and the
\* duration of the current phase: 1500 for work, 300 for the short break,
\* 900 for the long break.
C6_RemainingWithinPhase ==
    /\ pomodoroTime \in Int
    /\ 0 <= pomodoroTime
    /\ pomodoroTime <= (CASE pomodoroPhase = "work"       -> 1500
                          [] pomodoroPhase = "shortBreak" -> 300
                          [] pomodoroPhase = "longBreak"  -> 900)

\* a completion has just moved the pomodoro into a break
C6_Witness ==
    /\ last = "pomodoroTick"
    /\ cues = <<"alarm">>
    /\ pomodoroPhase \in {"shortBreak", "longBreak"}

\* C7: the Reset button in pomodoro mode leaves the work phase, 1500 seconds
\* remaining, a completed-work count of 0 and the component not running,
\* whatever the state it was pressed in.
C7_PomodoroReset ==
    (last = "reset" /\ mode = "pomodoro") =>
        /\ pomodoroPhase = "work"
        /\ pomodoroTime = 1500
        /\ pomodoroCount = 0
        /\ ~isRunning

\* the pomodoro has been reset after its timer had been running
C7_Witness ==
    /\ last = "reset"
    /\ mode = "pomodoro"
    /\ ticks > 0
    /\ worksDone = 0
    /\ ~pomodoroInterval.armed

\* C8: the stopwatch shows 10 ms for every callback since it stood at 0:
\* each callback adds exactly 10, the value never decreases from one running
\* state to the next, and after n callbacks it is 10 * n.
C8_StopwatchAccumulation ==
    [][/\ last' = "stopwatchTick" => stopwatch' = stopwatch + 10
       /\ (isRunning /\ isRunning') => stopwatch' >= stopwatch
       /\ stopwatch' = 10 * swTicks']_vars

\* the stopwatch has been ticked for as long as the exploration allows
C8_Witness ==
    /\ last = "stopwatchTick"
    /\ swTicks = MaxTicks
    /\ stopwatch = 10 * MaxTicks

\* C9: a lap is taken only while running and appends the current stopwatch
\* value after the earlier laps; no event but the Reset button in stopwatch
\* mode changes the laps otherwise; that reset leaves the stopwatch at 0,
\* no laps and the component not running.
C9_LapsAppendOnly ==
    [][/\ last' = "lap" => (isRunning /\ laps' = Append(laps, stopwatch))
       /\ (last' # "lap" /\ ~(last' = "reset" /\ mode = "stopwatch"))
              => laps' = laps
       /\ (last' = "reset" /\ mode = "stopwatch")
              => (stopwatch' = 0 /\ laps' = <<>> /\ ~isRunning')]_vars

\* a second lap has been appended after a different first one
C9_Witness ==
    /\ last = "lap"
    /\ Len(laps) = 2
    /\ laps[1] < laps[2]
    /\ laps[2] = stopwatch

\* C10: the Reset button stops the component and touches the state of the
\* mode on display only: in stopwatch mode the countdown and the pomodoro
\* keep their values, in countdown mode the stopwatch, the laps and the
\* pomodoro do, in pomodoro mode the countdown, the stopwatch and the laps do.
C10_ResetFrame ==
    [][last' = "reset" =>
        /\ ~isRunning'
        /\ mode' = mode
        /\ mode = "stopwatch" =>
               /\ countdown' = countdown
               /\ <<pomodoroPhase', pomodoroTime', pomodoroCount'>>
                      = <<pomodoroPhase, pomodoroTime, pomodoroCount>>
        /\ mode = "countdown" =>
               /\ <<stopwatch', laps'>> = <<stopwatch, laps>>
               /\ <<pomodoroPhase', pomodoroTime', pomodoroCount'>>
                      = <<pomodoroPhase, pomodoroTime, pomodoroCount>>
        /\ mode = "pomodoro" =>
               /\ countdown' = countdown
               /\ <<stopwatch', laps'>> = <<stopwatch, laps>>]_vars

\* the countdown has been reset with a lap recorded and the pomodoro part-way
C10_Witness ==
    /\ last = "reset"
    /\ mode = "countdown"
    /\ Len(laps) > 0
    /\ stopwatch > 0
    /\ pomodoroTime < POMODORO_work

\* C11: pressing Reset a second time, right after a first, leaves the whole
\* state of the component as the first reset left it, in every mode that
\* shows the button.
C11_ResetIdempotent ==
    [][(last = "reset" /\ last' = "reset") => component' = component]_vars

\* the stopwatch has been reset after timer callbacks, and Reset can be
\* pressed again
C11_Witness ==
    /\ last = "reset"
    /\ mode = "stopwatch"
    /\ ticks > 0
    /\ ~isRunning
    /\ stopwatch = 0 /\ laps = <<>>
    /\ ENABLED HandleReset

\* C12: a mode button changes the mode only: the running flag, the countdown
\* fields, the stopwatch, the laps and the pomodoro phase, remaining time and
\* count are what they were, so a running timer stays running.
C12_SetModeFrame ==
    [][last' = "setMode" =>
        /\ isRunning' = isRunning
        /\ countdown' = countdown
        /\ <<stopwatch', laps'>> = <<stopwatch, laps>>
        /\ <<pomodoroPhase', pomodoroTime', pomodoroCount'>>
               = <<pomodoroPhase, pomodoroTime, pomodoroCount>>]_vars

\* the mode has been switched away from a running stopwatch
C12_Witness ==
    /\ last = "setMode"
    /\ isRunning
    /\ mode # "stopwatch"
    /\ stopwatch > 0
    /\ Len(laps) > 0

\* C13: whenever the progress ring is rendered (running, in countdown or
\* pomodoro mode), the divisor of calculateProgress is not 0 or its result
\* is the number 0; a countdown of length 0 gives 0, not NaN or Infinity.
C13_ProgressNeverDividesByZero ==
    ProgressRingShown =>
        LET p == CalculateProgress(mode, pomodoroPhase, pomodoroTime, countdown)
        IN  \/ ProgressDivisor(mode, pomodoroPhase, countdown) # 0
            \/ (p.kind = "finite" /\ p.num = 0)

\* the timers left armed after the effects of a render have run
ArmedEngines ==
    {e \in {"pomodoro", "countdown", "stopwatch"} :
        CASE e = "pomodoro"  -> pomodoroInterval.armed
          [] e = "countdown" -> countdownInterval.armed
          [] e = "stopwatch" -> stopwatchInterval.armed}

\* C14: after every event the armed engine timers are exactly the timer of
\* the mode on display when the component is mounted, running and not on the
\* clock view, and none otherwise (paused, clock view, unmounted); and a
\* timer callback is delivered only to the engine on display while running,
\* never after a pause, a switch away or the unmount.
C14_OneEngineTimer ==
    /\ [](ArmedEngines = IF last # "unmount" /\ isRunning /\ mode # "clock"
                         THEN {mode} ELSE {})
    /\ [][/\ last' = "countdownTick" => (isRunning /\ mode = "countdown")
          /\ last' = "stopwatchTick" => (isRunning /\ mode = "stopwatch")
          /\ last' = "pomodoroTick"  => (isRunning /\ mode = "pomodoro")
          /\ last = "unmount" => component' = component]_vars

\* the mode has been switched from one running engine to another
C14_Witness ==
    /\ last = "setMode"
    /\ isRunning
    /\ mode = "pomodoro"
    /\ ArmedEngines = {"pomodoro"}
    /\ ticks > 0

\* hours, minutes and seconds of a well-formed countdown
CountdownWellFormed(c) ==
    /\ c.hours \in Nat
    /\ c.minutes \in 0..59
    /\ c.seconds \in 0..59

\* C15: the countdown fields are always non-negative integers with minutes
\* and seconds at most 59 (after presets and resets too), and a countdown
\* tick taken with a total above 1 stores the fields of the total minus one
\* and leaves the countdown running.
C15_CountdownTickNormalized ==
    /\ [](CountdownWellFormed(countdown) /\ Total(countdown) >= 0)
    /\ [][(last' = "countdownTick" /\ Total(countdown) > 1) =>
            /\ Total(countdown') = Total(countdown) - 1
            /\ CountdownWellFormed(countdown')
            /\ isRunning /\ isRunning']_vars

\* a tick has taken the countdown across a minute boundary, 1:01 to 1:00
C15_Witness ==
    /\ last = "countdownTick"
    /\ isRunning
    /\ countdown = [hours |-> 0, minutes |-> 1, seconds |-> 0]

\* the sound calls of the last event include this one
Emitted(seq, cue) == \E i \in 1..Len(seq) : seq[i] = cue

\* C16: a pomodoro or countdown tick never plays both the tick cue and the
\* alarm; the terminal tick (pomodoro remaining at most 1, countdown total
\* at most 1 before the tick) plays the alarm alone; a non-terminal tick
\* plays nothing or the tick cue alone, and the cue only at a multiple of 60
\* (the countdown total after the tick, the pomodoro remaining before it);
\* and no tick of any engine plays the tick cue while the sound is off.
C16_TickCueVersusAlarm ==
    [][/\ last' = "countdownTick" =>
            IF Total(countdown) <= 1
            THEN cues' = <<"alarm">>
            ELSE /\ cues' \in {<<>>, <<"tick">>}
                 /\ cues' = <<"tick">> => Total(countdown') % 60 = 0
       /\ last' = "pomodoroTick" =>
            IF pomodoroTime <= 1
            THEN cues' = <<"alarm">>
            ELSE /\ cues' \in {<<>>, <<"tick">>}
                 /\ cues' = <<"tick">> => pomodoroTime % 60 = 0
       /\ last' \in {"countdownTick", "pomodoroTick"} =>
            ~(Emitted(cues', "tick") /\ Emitted(cues', "alarm"))
       /\ (last' \in {"countdownTick", "pomodoroTick", "stopwatchTick"}
             /\ ~soundEnabled) => ~Emitted(cues', "tick")]_vars

\* a countdown tick has reached a full minute with the sound on
C16_Witness ==
    /\ last = "countdownTick"
    /\ cues = <<"tick">>
    /\ soundEnabled
    /\ Total(countdown) = 60

\* C17: the completed-work counter is always in 0..3; it is 0 during a long
\* break and in 1..3 during a short break.
C17_CountBoundedByPhase ==
    /\ pomodoroCount \in 0..(POMODORO_longBreakInterval - 1)
    /\ pomodoroPhase = "longBreak" => pomodoroCount = 0
    /\ pomodoroPhase = "shortBreak" =>
           pomodoroCount \in 1..(POMODORO_longBreakInterval - 1)

\* the fourth work phase has just completed into the long break
C17_Witness ==
    /\ last = "pomodoroTick"
    /\ pomodoroPhase = "longBreak"
    /\ pomodoroCount = 0
    /\ ~isRunning

\* C18: the pomodoro timer callback closes over the phase and the
\* completed-work count of the render that armed it; while the timer is
\* armed, and so whenever a completion fires, the captured phase and count
\* are the current phase and count.
C18_NoStaleCapture ==
    /\ [](pomodoroInterval.armed =>
            /\ pomodoroInterval.pomodoroPhase = pomodoroPhase
            /\ pomodoroInterval.pomodoroCount = pomodoroCount)
    /\ [][(last' = "pomodoroTick" /\ PomodoroCompletes(pomodoroTime)) =>
            /\ pomodoroInterval.pomodoroPhase = pomodoroPhase
            /\ pomodoroInterval.pomodoroCount = pomodoroCount]_vars

\* a work completion has fired after the count had already changed once
C18_Witness ==
    /\ last = "pomodoroTick"
    /\ ~isRunning
    /\ pomodoroPhase = "shortBreak"
    /\ pomodoroCount >= 2
    /\ ticks >= 2

\* C19: the stopwatch value is always a non-negative multiple of 10, the
\* laps are non-decreasing in the order they were recorded, and no lap is
\* greater than the current stopwatch value.
C19_StopwatchLapConsistency ==
    /\ stopwatch >= 0
    /\ stopwatch % StopwatchQuantum = 0
    /\ \A i \in 1..Len(laps) : laps[i] <= stopwatch
    /\ \A i \in 1..Len(laps) : \A j \in i..Len(laps) : laps[i] <= laps[j]

\* two laps recorded at different times, and the stopwatch has moved on
C19_Witness ==
    /\ last = "stopwatchTick"
    /\ Len(laps) = 2
    /\ laps[1] < laps[2]
    /\ laps[2] < stopwatch

\* the events that are clicks
UserEvents ==
    {"setMode", "toggleSound", "toggleRunning", "preset", "lap", "reset"}

\* C20: with a fairly scheduled timer, from every state with a countdown or
\* a pomodoro running, either a click follows or isRunning eventually
\* becomes FALSE (the countdown expires, the pomodoro phase completes); and
\* while isRunning is FALSE no countdown, stopwatch or pomodoro field
\* changes except by a click.
C20_BoundedRunsTerminate ==
    /\ \/ []<><<last' \in UserEvents>>_vars
       \/ <>[]((isRunning /\ mode \in {"countdown", "pomodoro"}) => <>(~isRunning))
    /\ [][~isRunning =>
            \/ last' \in UserEvents
            \/ /\ countdown' = countdown
               /\ <<stopwatch', laps'>> = <<stopwatch, laps>>
               /\ <<pomodoroPhase', pomodoroCount', pomodoroTime'>>
                      = <<pomodoroPhase, pomodoroCount, pomodoroTime>>]_vars

\* a preset countdown has run all the way down and stopped itself
C20_Witness ==
    /\ last = "countdownTick"
    /\ mode = "countdown"
    /\ ~isRunning
    /\ countdown = ZeroCountdown
    /\ ticks > MaxTicks

====
